---- MODULE Spec2Model ----
(***************************************************************************)
(* Model of the mesh warp engine of video_warper.py (class MeshWarper):    *)
(* the mesh loader, the identity mesh generator, the radial distortion     *)
(* transform, reset, the triangle-strip tessellation pass, and the render  *)
(* loop with its frame reads and cleanup.                                  *)
(*                                                                         *)
(* Numbers.  Python floats are modelled as exact rationals [n, d] in       *)
(* lowest terms with d > 0, plus the value NaN (d = 0), for which every    *)
(* comparison is false and which every arithmetic operation propagates.    *)
(* Rounding is not modelled: np.sqrt(q)**2 is taken to be q.               *)
(*                                                                         *)
(* Text.  A raw line of the mesh file is the sequence of its whitespace    *)
(* separated tokens (what str.split() returns); a blank line is <<>>.      *)
(* int() and float() are the tables IntLit and FloatLit over the token     *)
(* vocabulary; a token outside a table raises ValueError.                  *)
(***************************************************************************)
EXTENDS Integers, Sequences, FiniteSets, TLC

VARIABLES
    disk,       \* content of the file at the mesh path: NotFound or raw lines
    mesh_file,  \* self.mesh_file: "" models None / the empty path
    width,      \* self.width
    height,     \* self.height
    rows,       \* self.rows
    cols,       \* self.cols
    mesh,       \* self.mesh: sequence of nodes, mesh[i+1] is Python mesh[i]
    phase,      \* "new": before the mesh is initialised; "ready"; "dead"
    exc,        \* exception that escaped the last operation, or "none"
    gl,         \* GL calls issued by the last operation
    reads,      \* mesh indices subscripted by the last operation
    last,       \* the last operation and the engine state it started from
    start,      \* rows, cols and mesh established at engine start
    pc,         \* position in run(): "idle" before the call, then the loop steps
    running,    \* local variable running of run()
    paused,     \* local variable paused of run()
    cap,        \* self.cap: the video source
    window,     \* self.window_width, self.window_height, self.fullscreen
    tick,       \* what the current loop iteration did so far
    shutdown    \* calls issued by cleanup()

loopvars == <<pc, running, paused, cap, window, tick, shutdown>>

vars == <<disk, mesh_file, width, height, rows, cols, mesh, phase, exc, gl, reads, last,
          start, pc, running, paused, cap, window, tick, shutdown>>

----------------------------------------------------------------------------
(* Exact rational arithmetic standing for Python float arithmetic.         *)

Abs(a) == IF a < 0 THEN -a ELSE a

RECURSIVE Gcd(_, _)
Gcd(a, b) == IF b = 0 THEN a ELSE Gcd(b, a % b)

NaN == [n |-> 0, d |-> 0]

IsNaN(a) == a.d = 0

Rat(n, d) ==
    IF d = 0 THEN NaN
    ELSE LET g == Gcd(Abs(n), Abs(d))
             s == IF d < 0 THEN -1 ELSE 1
         IN  [n |-> (s * n) \div g, d |-> (s * d) \div g]

RInt(k) == [n |-> k, d |-> 1]

RAdd(a, b) == IF IsNaN(a) \/ IsNaN(b) THEN NaN ELSE Rat(a.n * b.d + b.n * a.d, a.d * b.d)

RSub(a, b) == IF IsNaN(a) \/ IsNaN(b) THEN NaN ELSE Rat(a.n * b.d - b.n * a.d, a.d * b.d)

RMul(a, b) == IF IsNaN(a) \/ IsNaN(b) THEN NaN ELSE Rat(a.n * b.n, a.d * b.d)

RNeg(a) == [n |-> -a.n, d |-> a.d]

\* a < b and a > b on floats: false whenever an operand is NaN
RLt(a, b) == ~IsNaN(a) /\ ~IsNaN(b) /\ a.n * b.d < b.n * a.d

RGt(a, b) == RLt(b, a)

RLe(a, b) == ~IsNaN(a) /\ ~IsNaN(b) /\ a.n * b.d <= b.n * a.d

----------------------------------------------------------------------------
(* Python conversions and slicing.                                         *)

\* int(token): the integer literals of the vocabulary; anything else raises
IntLit ==
    ("-2" :> -2) @@ ("0" :> 0) @@ ("1" :> 1) @@ ("2" :> 2) @@ ("3" :> 3) @@
    ("4" :> 4) @@ ("5" :> 5)

\* float(token): integer literals, decimals and "nan"; anything else raises
FloatLit ==
    ("-2" :> RInt(-2)) @@ ("0" :> RInt(0)) @@ ("1" :> RInt(1)) @@ ("2" :> RInt(2)) @@
    ("3" :> RInt(3)) @@ ("4" :> RInt(4)) @@ ("5" :> RInt(5)) @@
    ("0.5" :> Rat(1, 2)) @@ ("0.25" :> Rat(1, 4)) @@ ("1.5" :> Rat(3, 2)) @@
    ("1.2" :> Rat(6, 5)) @@ ("-0.1" :> Rat(-1, 10)) @@ ("-0.5" :> Rat(-1, 2)) @@
    ("nan" :> NaN)

\* l.strip().startswith('#') for a non-blank line whose first token is tok
StartsWithHash(tok) == tok \in {"#", "#mesh"}

\* s[:n] for a list s and any integer n (a negative n counts from the end)
PySlice(s, n) ==
    LET stop == IF n >= 0 THEN (IF n < Len(s) THEN n ELSE Len(s))
                ELSE (IF Len(s) + n > 0 THEN Len(s) + n ELSE 0)
    IN  SubSeq(s, 1, stop)

\* s[k:] for k >= 0
PyTail(s, k) == SubSeq(s, k + 1, Len(s))

----------------------------------------------------------------------------
(* create_identity_mesh                                                    *)

\* The video aspect ratio used by the generator
AspectRatio(w, h) == IF h > 0 THEN Rat(w, h) ELSE Rat(16, 9)

\* Mutant: the texture row is not flipped (v = r/(rows-1))
IdentityNodeUnflipped(r, c, rws, cls, aspect) ==
    LET cu == Rat(c, cls - 1)
        rv == Rat(r, rws - 1)
    IN  [x     |-> RSub(RMul(RMul(cu, RInt(2)), aspect), aspect),
         y     |-> RSub(RMul(rv, RInt(2)), RInt(1)),
         u     |-> cu,
         v     |-> rv,
         i     |-> RInt(1),
         valid |-> TRUE]

\* The node generated for grid position (r, c); rws, cls >= 2 here
IdentityNode(r, c, rws, cls, aspect) ==
    LET cu == Rat(c, cls - 1)
        rv == Rat(r, rws - 1)
    IN  [x     |-> RSub(RMul(RMul(cu, RInt(2)), aspect), aspect),
         y     |-> RSub(RMul(rv, RInt(2)), RInt(1)),
         u     |-> cu,
         v     |-> RSub(RInt(1), rv),
         i     |-> RInt(1),
         valid |-> TRUE]

\* c / (self.cols - 1) or r / (self.rows - 1) divides by zero in the first
\* iteration of the loops, which is entered when both ranges are non-empty
IdentityRaises(rws, cls) == rws >= 1 /\ cls >= 1 /\ (cls = 1 \/ rws = 1)

\* Result of create_identity_mesh: the exception it raises (or "none") and
\* the mesh it returns, row-major over range(rows) x range(cols)
create_identity_mesh(rws, cls, w, h) ==
    IF IdentityRaises(rws, cls)
    THEN [exc |-> "ZeroDivisionError", mesh |-> <<>>]
    ELSE IF rws <= 0 \/ cls <= 0
    THEN [exc |-> "none", mesh |-> <<>>]
    ELSE [exc  |-> "none",
          mesh |-> [k \in 1..(rws * cls) |->
                      IdentityNode((k - 1) \div cls, (k - 1) % cls, rws, cls,
                                   AspectRatio(w, h))]]

----------------------------------------------------------------------------
(* load_mesh                                                               *)

\* The lines kept by the comprehension: non-blank and not starting with '#'
Significant(raw) == SelectSeq(raw, LAMBDA l : l # <<>> /\ ~StartsWithHash(l[1]))

\* int(line) succeeds on a stripped line only when it is one integer literal
IntParses(line) == Len(line) = 1 /\ line[1] \in DOMAIN IntLit

\* map(float, parts[:5]) succeeds
NodeParses(parts) == \A j \in 1..5 : parts[j] \in DOMAIN FloatLit

\* The validity the loader computes from u, v, intensity
NodeValid(u, v, i) ==
    /\ ~(RLt(u, RInt(0)) \/ RGt(u, RInt(1)) \/ RLt(v, RInt(0)) \/ RGt(v, RInt(1)))
    /\ ~RLt(i, RInt(0))
    /\ ~RGt(i, RInt(1))

\* The node appended for a line with at least five fields that all parse
ParseNode(parts) ==
    [x     |-> FloatLit[parts[1]],
     y     |-> FloatLit[parts[2]],
     u     |-> FloatLit[parts[3]],
     v     |-> FloatLit[parts[4]],
     i     |-> FloatLit[parts[5]],
     valid |-> NodeValid(FloatLit[parts[3]], FloatLit[parts[4]], FloatLit[parts[5]])]

\* The node appended for a line with fewer than five fields
Placeholder ==
    [x |-> RInt(0), y |-> RInt(0), u |-> RInt(0), v |-> RInt(0), i |-> RInt(0),
     valid |-> FALSE]

\* The except branches: the identity mesh for the rows/cols self holds when
\* the exception is caught; an exception raised by the generator escapes
Fallback(rws, cls, w, h, cause) ==
    LET id == create_identity_mesh(rws, cls, w, h)
    IN  [exc |-> id.exc, mesh |-> id.mesh, rows |-> rws, cols |-> cls, cause |-> cause]

\* Result of load_mesh on file d for an engine holding rws, cls, w, h:
\* the exception that escapes (or "none"), the mesh returned, self.rows and
\* self.cols after the call, and the branch that led to the fallback
load_mesh(d, rws, cls, w, h) ==
    IF ~d.exists THEN Fallback(rws, cls, w, h, "FileNotFoundError")
    ELSE
    LET lines == Significant(d.lines) IN
    IF Len(lines) < 3 THEN Fallback(rws, cls, w, h, "too short")
    ELSE IF ~IntParses(lines[1]) THEN Fallback(rws, cls, w, h, "version")
    ELSE IF Len(lines[2]) # 2 THEN Fallback(rws, cls, w, h, "dimensions")
    ELSE IF ~(lines[2][1] \in DOMAIN IntLit /\ lines[2][2] \in DOMAIN IntLit)
         THEN Fallback(rws, cls, w, h, "dimensions")
    ELSE
    LET nx == IntLit[lines[2][1]]
        ny == IntLit[lines[2][2]]
        expected_nodes == nx * ny
        node_lines == PyTail(lines, 2)
        taken == PySlice(node_lines, expected_nodes)
    IN  IF \E k \in 1..Len(taken) : Len(taken[k]) >= 5 /\ ~NodeParses(taken[k])
        THEN Fallback(ny, nx, w, h, "node")
        ELSE [exc  |-> "none",
              mesh |-> [k \in 1..Len(taken) |->
                          IF Len(taken[k]) >= 5 THEN ParseNode(taken[k])
                          ELSE Placeholder],
              rows |-> ny,
              cols |-> nx,
              cause |-> "none"]

----------------------------------------------------------------------------
(* apply_barrel_distortion, apply_pincushion_distortion                    *)

\* Mutant: the factor scales the previous x, y instead of u_norm, v_norm
BarrelNodeFromPosition(node, strength) ==
    LET u_norm == RSub(RMul(node.u, RInt(2)), RInt(1))
        v_norm == RSub(RMul(node.v, RInt(2)), RInt(1))
        r2     == RAdd(RMul(u_norm, u_norm), RMul(v_norm, v_norm))
        factor == RAdd(RInt(1), RMul(strength, r2))
    IN  [node EXCEPT !.x = RMul(node.x, factor), !.y = RMul(node.y, factor)]

\* The loop body for one valid node: x, y recomputed from u, v
BarrelNode(node, strength) ==
    LET u_norm == RSub(RMul(node.u, RInt(2)), RInt(1))
        v_norm == RSub(RMul(node.v, RInt(2)), RInt(1))
        r2     == RAdd(RMul(u_norm, u_norm), RMul(v_norm, v_norm))
        factor == RAdd(RInt(1), RMul(strength, r2))
    IN  [node EXCEPT !.x = RMul(u_norm, factor), !.y = RMul(v_norm, factor)]

\* Mutant: the "if not node['valid']: continue" test is missing
apply_barrel_distortion_every_node(m, strength) ==
    [k \in 1..Len(m) |-> BarrelNode(m[k], strength)]

\* The mesh after apply_barrel_distortion(strength): invalid nodes skipped
apply_barrel_distortion(m, strength) ==
    [k \in 1..Len(m) |-> IF ~m[k].valid THEN m[k] ELSE BarrelNode(m[k], strength)]

\* Mutant: the strength is passed on without changing its sign
apply_pincushion_distortion_same_sign(m, strength) == apply_barrel_distortion(m, strength)

\* The mesh after apply_pincushion_distortion(strength)
apply_pincushion_distortion(m, strength) == apply_barrel_distortion(m, RNeg(strength))

----------------------------------------------------------------------------
(* is_quad_valid, draw_mesh                                                *)

\* m[i]['valid'] for a Python index i; an index outside the list raises
\* IndexError, which Subscriptable tells apart
Subscriptable(m, i) == i >= -Len(m) /\ i < Len(m)

ValidAt(m, i) == IF i >= 0 /\ i < Len(m) THEN m[i + 1].valid ELSE FALSE

\* Mutant: the "Check bounds" test is missing
is_quad_valid_unchecked(m, cls, r, c) ==
    LET idx_tl == r * cls + c
        idx_tr == r * cls + (c + 1)
        idx_bl == (r + 1) * cls + c
        idx_br == (r + 1) * cls + (c + 1)
    IN  [ok    |-> ValidAt(m, idx_tl) /\ ValidAt(m, idx_tr) /\
                   ValidAt(m, idx_bl) /\ ValidAt(m, idx_br),
         reads |-> {idx_tl} \cup
                   (IF ValidAt(m, idx_tl) THEN {idx_tr} ELSE {}) \cup
                   (IF ValidAt(m, idx_tl) /\ ValidAt(m, idx_tr) THEN {idx_bl} ELSE {}) \cup
                   (IF ValidAt(m, idx_tl) /\ ValidAt(m, idx_tr) /\ ValidAt(m, idx_bl)
                    THEN {idx_br} ELSE {})]

\* Result of is_quad_valid(r, c): its value and the indices it subscripts
\* (the conjunction is evaluated left to right and stops at the first false)
is_quad_valid(m, cls, r, c) ==
    LET idx_tl == r * cls + c
        idx_tr == r * cls + (c + 1)
        idx_bl == (r + 1) * cls + c
        idx_br == (r + 1) * cls + (c + 1)
    IN  IF idx_tl >= Len(m) \/ idx_tr >= Len(m) \/ idx_bl >= Len(m) \/ idx_br >= Len(m)
        THEN [ok |-> FALSE, reads |-> {}]
        ELSE [ok    |-> ValidAt(m, idx_tl) /\ ValidAt(m, idx_tr) /\
                        ValidAt(m, idx_bl) /\ ValidAt(m, idx_br),
              reads |-> {idx_tl} \cup
                        (IF ValidAt(m, idx_tl) THEN {idx_tr} ELSE {}) \cup
                        (IF ValidAt(m, idx_tl) /\ ValidAt(m, idx_tr) THEN {idx_bl} ELSE {}) \cup
                        (IF ValidAt(m, idx_tl) /\ ValidAt(m, idx_tr) /\ ValidAt(m, idx_bl)
                         THEN {idx_br} ELSE {})]

\* GL calls: glBegin(GL_TRIANGLE_STRIP), glEnd(), and one vertex (glColor3f,
\* glTexCoord2f, glVertex2f of mesh[idx]) issued for strip row r, column c
GlBegin == [op |-> "glBegin", idx |-> -1, r |-> -1, c |-> -1]

GlEnd == [op |-> "glEnd", idx |-> -1, r |-> -1, c |-> -1]

GlVertex(idx, r, c) == [op |-> "glVertex2f", idx |-> idx, r |-> r, c |-> c]

\* The inner loop of draw_mesh from column c on; st holds the calls issued
\* so far, the indices subscripted so far and strip_started
RECURSIVE DrawCols(_, _, _, _, _)
DrawCols(m, cls, r, c, st) ==
    IF c >= cls THEN st
    ELSE
    LET q == IF c < cls - 1 THEN is_quad_valid(m, cls, r, c)
             ELSE [ok |-> TRUE, reads |-> {}]
    IN  IF ~q.ok
        THEN DrawCols(m, cls, r, c + 1,
                 [gl      |-> IF st.started THEN st.gl \o <<GlEnd, GlBegin>> ELSE st.gl,
                  reads   |-> st.reads \cup q.reads,
                  started |-> FALSE])
        ELSE
        LET idx1 == r * cls + c
            idx2 == (r + 1) * cls + c
            in1  == idx1 < Len(m)
            in2  == idx2 < Len(m)
            e1   == in1 /\ ValidAt(m, idx1)
            e2   == in2 /\ ValidAt(m, idx2)
        IN  DrawCols(m, cls, r, c + 1,
                [gl      |-> st.gl \o (IF e1 THEN <<GlVertex(idx1, r, c)>> ELSE <<>>)
                                   \o (IF e2 THEN <<GlVertex(idx2, r, c)>> ELSE <<>>),
                 reads   |-> st.reads \cup q.reads
                                      \cup (IF in1 THEN {idx1} ELSE {})
                                      \cup (IF in2 THEN {idx2} ELSE {}),
                 started |-> st.started \/ e1])

\* One iteration of the outer loop of draw_mesh: glBegin, the columns, glEnd
DrawRow(m, cls, r) ==
    LET st == DrawCols(m, cls, r, 0, [gl |-> <<GlBegin>>, reads |-> {}, started |-> FALSE])
    IN  [gl |-> st.gl \o <<GlEnd>>, reads |-> st.reads]

\* The outer loop of draw_mesh from row r on
RECURSIVE DrawRows(_, _, _, _)
DrawRows(m, rws, cls, r) ==
    IF r >= rws - 1 THEN [gl |-> <<>>, reads |-> {}]
    ELSE LET row  == DrawRow(m, cls, r)
             rest == DrawRows(m, rws, cls, r + 1)
         IN  [gl |-> row.gl \o rest.gl, reads |-> row.reads \cup rest.reads]

\* Result of one draw_mesh pass: the GL calls, the indices subscripted, and
\* the exception a subscript outside the list raises (or "none")
draw_mesh(m, rws, cls) ==
    LET res == DrawRows(m, rws, cls, 0)
    IN  [gl    |-> res.gl,
         reads |-> res.reads,
         exc   |-> IF \A i \in res.reads : Subscriptable(m, i) THEN "none"
                   ELSE "IndexError"]

----------------------------------------------------------------------------
(* Bounds and inputs.                                                      *)

MaxNodeLines == 5   \* node lines in the files that vary the kind of line
MaxDefects == 1     \* lines of such a file that are not well-formed valid nodes
MaxDim == 3         \* largest nx, ny of the files that vary the validity pattern
MaxNodes == 9       \* largest nx*ny of those files
MaxCfg == 3         \* largest configured rows, cols varied without a usable file

\* Defaults of MeshWarper.__init__(video_path, mesh_file=None, rows=10, cols=10)
DefaultRows == 10
DefaultCols == 10

\* strength arguments; 0.3 is the default and the value bound to the keys
Strengths == {Rat(3, 10), Rat(-1, 2)}

\* (width, height) reported by the video source; height 0 when unknown
Videos == {<<1920, 1080>>, <<640, 480>>, <<640, 0>>}

NotFound == [exists |-> FALSE, lines |-> <<>>]

File(ls) == [exists |-> TRUE, lines |-> ls]

Tok(k) == CHOOSE t \in DOMAIN IntLit : IntLit[t] = k

Blank == <<>>

Comment == <<"#", "x", "y">>

Header(nx, ny) == << <<"2">>, <<Tok(nx), Tok(ny)>> >>

\* Well-formed node lines "x y u v intensity" with u, v, intensity in [0, 1]
GoodLines ==
    << <<"0", "0", "0", "1", "1">>,
       <<"1.5", "-2", "0.5", "0.25", "0.5", "extra">>,
       <<"-0.5", "0.5", "1", "0", "0">> >>

GoodAt(p) == GoodLines[((p - 1) % Len(GoodLines)) + 1]

AllGood(n) == [p \in 1..n |-> GoodAt(p)]

\* Lines the loader stores as invalid nodes
ULow == <<"0", "0", "-0.1", "0.5", "1">>
UHigh == <<"0", "0", "1.5", "0.5", "1">>
VLow == <<"0.5", "0.5", "0.5", "-0.5", "1">>
VHigh == <<"0.5", "0.5", "0.5", "1.2", "1">>
ILow == <<"0", "0", "0.5", "0.5", "-0.1">>
IHigh == <<"0", "0", "0.5", "0.5", "1.2">>
Short == <<"0", "0", "0.5", "0.5">>

\* Lines with a field that is not a number in [0, 1] for another reason
NanU == <<"0", "0", "nan", "0.5", "1">>
NanI == <<"0", "0", "0.5", "0.5", "nan">>
BadField == <<"0", "0", "0.5", "x", "1">>

OutOfRangeLines == {ULow, UHigh, VLow, VHigh, ILow, IHigh}

DefectLines == OutOfRangeLines \cup {Short, NanU, NanI, BadField}

\* Bodies of n node lines of which at most k are defect lines
RECURSIVE WithDefects(_, _)
WithDefects(n, k) ==
    IF k = 0 THEN {AllGood(n)}
    ELSE LET prev == WithDefects(n, k - 1)
         IN  prev \cup {[b EXCEPT ![p] = dl] : b \in prev, p \in 1..n, dl \in DefectLines}

\* 2x2 files with 0..MaxNodeLines node lines, at most MaxDefects of them defects
BodyFiles ==
    UNION {{File(Header(2, 2) \o b) : b \in WithDefects(n, MaxDefects)} : n \in 0..MaxNodeLines}

\* nx x ny files with at most nx*ny node lines, each valid or out of range
GridDims == {d \in (1..MaxDim) \X (1..MaxDim) : d[1] * d[2] <= MaxNodes}

GridFiles ==
    UNION {UNION {{File(Header(d[1], d[2]) \o [p \in 1..n |-> IF p \in S THEN UHigh ELSE GoodAt(p)])
                     : S \in SUBSET (1..n)}
                  : n \in 0..(d[1] * d[2])}
           : d \in GridDims}

\* Header edge cases: too few lines, version line, dimensions line
DimToks == {"-2", "0", "1", "2", "x", "0.5"}

DimLines == {<<a, b>> : a \in DimToks, b \in DimToks} \cup {<<"2">>, <<"2", "2", "2">>}

DimLineParses(dl) == Len(dl) = 2 /\ dl[1] \in DOMAIN IntLit /\ dl[2] \in DOMAIN IntLit

HeaderFiles ==
    {File(<<>>), File(<< <<"2">> >>), File(Header(2, 2)),
     File(<<Comment, <<"2">>, Blank, <<"2", "2">>, Comment>>),
     File(<<Comment, <<"2">>, Blank, <<"2", "2">>, GoodAt(1), Comment, GoodAt(2), Blank,
            GoodAt(3), UHigh, Comment>>)}
    \cup {File(<<v, <<"2", "2">> >> \o AllGood(MaxNodeLines)) : v \in {<<"3">>, <<"x">>, <<"2", "2">>}}
    \cup {File(<< <<"2">>, dl >> \o AllGood(MaxNodeLines)) : dl \in DimLines}
    \cup {File(<< <<"2">>, dl >> \o <<BadField>> \o AllGood(MaxNodeLines)) :
              dl \in {l \in DimLines : DimLineParses(l)}}

Files == HeaderFiles \cup BodyFiles \cup GridFiles

CfgRange == (-1)..MaxCfg

\* The engines the model starts from: a mesh file with the default rows/cols,
\* or no usable mesh file with the configured rows/cols and the video varied
Setups ==
    {[disk |-> f, mesh_file |-> "mesh.txt", rows |-> DefaultRows, cols |-> DefaultCols,
      width |-> 1920, height |-> 1080] : f \in Files \cup {NotFound}}
    \cup
    {[disk |-> f[1], mesh_file |-> f[2], rows |-> rc[1], cols |-> rc[2],
      width |-> v[1], height |-> v[2]] :
        f \in {<<NotFound, "">>, <<NotFound, "mesh.txt">>, <<File(<< <<"2">> >>), "mesh.txt">>},
        rc \in CfgRange \X CfgRange,
        v \in Videos}

----------------------------------------------------------------------------
(* The video source (cv2.VideoCapture) and the window.                     *)

\* An opened source that decodes n frames from its start; a source that is
\* not seekable (a camera, a broken stream) ignores a change of position
Source(n, seekable) == [pos |-> 0, frames |-> n, seekable |-> seekable, released |-> FALSE]

\* self.cap.read(): the flag ret and the source after the call
cap_read(c) ==
    IF ~c.released /\ c.pos < c.frames
    THEN [ret |-> TRUE, cap |-> [c EXCEPT !.pos = @ + 1]]
    ELSE [ret |-> FALSE, cap |-> c]

\* self.cap.set(cv2.CAP_PROP_POS_FRAMES, 0)
cap_rewind(c) == IF c.seekable /\ ~c.released THEN [c EXCEPT !.pos = 0] ELSE c

\* self.cap.release()
cap_release(c) == [c EXCEPT !.released = TRUE]

\* Window size of __init__ and of the windowed mode; size of the display
WindowedSize == <<800, 600>>

DisplaySize == <<1920, 1080>>

\* Sizes the window manager reports in VIDEORESIZE events
ResizeSizes == {<<1024, 768>>}

\* A loop iteration that has done nothing yet: the value paused had at the
\* "if not paused" test, and the calls issued on the source and the backend
NewTick == [paused |-> "unknown", io |-> <<>>]

----------------------------------------------------------------------------
(* The engine.                                                             *)

NoArg == RInt(0)

Before(op, arg, cause) ==
    [op |-> op, arg |-> arg, cause |-> cause, rows |-> rows, cols |-> cols, mesh |-> mesh]

\* The attributes __init__ sets before it initialises the mesh, for the
\* constructor arguments and mesh file of setup su and the opened source c
Construct(su, c) ==
    /\ disk = su.disk
    /\ mesh_file = su.mesh_file
    /\ width = su.width
    /\ height = su.height
    /\ rows = su.rows
    /\ cols = su.cols
    /\ mesh = <<>>
    /\ phase = "new"
    /\ exc = "none"
    /\ gl = <<>>
    /\ reads = {}
    /\ last = [op |-> "none", arg |-> NoArg, cause |-> "none",
               rows |-> su.rows, cols |-> su.cols, mesh |-> <<>>]
    /\ start = [rows |-> su.rows, cols |-> su.cols, mesh |-> <<>>]
    /\ pc = "idle"
    /\ running = FALSE
    /\ paused = FALSE
    /\ cap = c
    /\ window = [w |-> WindowedSize[1], h |-> WindowedSize[2], fullscreen |-> FALSE]
    /\ tick = NewTick
    /\ shutdown = <<>>

Init == \E su \in Setups : Construct(su, Source(1, TRUE))

\* "Initialize mesh" of __init__: the loader when a mesh path was given,
\* the generator otherwise
initial_mesh(d, mf, rws, cls, w, h) ==
    IF mf # "" THEN load_mesh(d, rws, cls, w, h)
    ELSE [exc  |-> create_identity_mesh(rws, cls, w, h).exc,
          mesh |-> create_identity_mesh(rws, cls, w, h).mesh,
          rows |-> rws, cols |-> cls, cause |-> "no file"]

\* Mutant: reset conflated with "regenerate the identity mesh"
reset_mesh_regenerates(d, mf, rws, cls, w, h) ==
    [exc  |-> create_identity_mesh(rws, cls, w, h).exc,
     mesh |-> create_identity_mesh(rws, cls, w, h).mesh,
     rows |-> rws, cols |-> cls, cause |-> "no file"]

\* reset_mesh: reload from the remembered path, or regenerate the identity
reset_mesh(d, mf, rws, cls, w, h) ==
    IF mf # "" THEN load_mesh(d, rws, cls, w, h)
    ELSE [exc  |-> create_identity_mesh(rws, cls, w, h).exc,
          mesh |-> create_identity_mesh(rws, cls, w, h).mesh,
          rows |-> rws, cols |-> cls, cause |-> "no file"]

\* What "self.mesh = <call>" leaves behind for the result res of the call:
\* self.rows/self.cols as the call set them; the assignment to self.mesh
\* does not happen when the call raises, and the exception ends the engine
Install(res) ==
    /\ rows' = res.rows
    /\ cols' = res.cols
    /\ exc' = res.exc
    /\ mesh' = IF res.exc = "none" THEN res.mesh ELSE mesh
    /\ phase' = IF res.exc = "none" THEN "ready" ELSE "dead"
    /\ gl' = <<>>
    /\ reads' = {}

\* __init__, lines "Initialize mesh"
Start ==
    /\ phase = "new"
    /\ LET res == initial_mesh(disk, mesh_file, rows, cols, width, height)
       IN  /\ Install(res)
           /\ last' = Before("start", NoArg, res.cause)
           /\ start' = [rows |-> res.rows, cols |-> res.cols,
                        mesh |-> IF res.exc = "none" THEN res.mesh ELSE mesh]
    /\ UNCHANGED <<disk, mesh_file, width, height, loopvars>>

\* reset_mesh (key R)
ResetMesh ==
    /\ phase = "ready"
    /\ LET res == reset_mesh(disk, mesh_file, rows, cols, width, height)
       IN  /\ Install(res)
           /\ last' = Before("reset", NoArg, res.cause)
    /\ UNCHANGED <<disk, mesh_file, width, height, start, loopvars>>

\* apply_barrel_distortion(strength) (key B with 0.3)
ApplyBarrel ==
    /\ phase = "ready"
    /\ \E s \in Strengths :
        /\ mesh' = apply_barrel_distortion(mesh, s)
        /\ last' = Before("barrel", s, "none")
    /\ exc' = "none"
    /\ gl' = <<>>
    /\ reads' = {}
    /\ UNCHANGED <<disk, mesh_file, width, height, rows, cols, phase, start, loopvars>>

\* apply_pincushion_distortion(strength) (key P with 0.3)
ApplyPincushion ==
    /\ phase = "ready"
    /\ \E s \in Strengths :
        /\ mesh' = apply_pincushion_distortion(mesh, s)
        /\ last' = Before("pincushion", s, "none")
    /\ exc' = "none"
    /\ gl' = <<>>
    /\ reads' = {}
    /\ UNCHANGED <<disk, mesh_file, width, height, rows, cols, phase, start, loopvars>>

\* draw_mesh: one tessellation pass
DrawMesh ==
    /\ phase = "ready"
    /\ LET res == draw_mesh(mesh, rows, cols)
       IN  /\ gl' = res.gl
           /\ reads' = res.reads
           /\ exc' = res.exc
           /\ phase' = IF res.exc = "none" THEN "ready" ELSE "dead"
    /\ last' = Before("draw", NoArg, "none")
    /\ UNCHANGED <<disk, mesh_file, width, height, rows, cols, mesh, start, loopvars>>

Next == Start \/ ResetMesh \/ ApplyBarrel \/ ApplyPincushion \/ DrawMesh

Spec == Init /\ [][Next]_vars

----------------------------------------------------------------------------
(* run, cleanup: the render loop.                                          *)

MaxFrames == 2      \* most frames a video source decodes from its start

\* strength bound to the keys B and P
KeyStrength == Rat(3, 10)

Sources == {Source(n, sk) : n \in 0..MaxFrames, sk \in BOOLEAN}

\* The engines the render loop is run on: a 2x2 mesh file with an invalid
\* node, and a 2x3 identity mesh
RunSetups ==
    {[disk |-> File(Header(2, 2) \o <<GoodAt(1), GoodAt(2), VLow, GoodAt(3)>>),
      mesh_file |-> "mesh.txt", rows |-> DefaultRows, cols |-> DefaultCols,
      width |-> 1920, height |-> 1080],
     [disk |-> NotFound, mesh_file |-> "", rows |-> 2, cols |-> 3,
      width |-> 640, height |-> 480]}

RunInit == \E su \in RunSetups : \E c \in Sources : Construct(su, c)

\* Mutant: the loop is left at the first failed read, without seek or retry
read_frame_no_retry(c) ==
    LET r1 == cap_read(c)
    IN  IF r1.ret
        THEN [cap |-> r1.cap, io |-> <<"read ok">>, ret |-> TRUE]
        ELSE [cap |-> r1.cap, io |-> <<"read failed">>, ret |-> FALSE]

\* "Read frame": the read, and after a failed read the seek to frame 0 and
\* the second read; the source afterwards, the calls issued, the last ret
read_frame(c) ==
    LET r1 == cap_read(c)
    IN  IF r1.ret
        THEN [cap |-> r1.cap, io |-> <<"read ok">>, ret |-> TRUE]
        ELSE LET r2 == cap_read(cap_rewind(r1.cap))
             IN  [cap |-> r2.cap,
                  io  |-> <<"read failed", "seek 0">>
                          \o (IF r2.ret THEN <<"read ok">> ELSE <<"read failed">>),
                  ret |-> r2.ret]

\* run() up to the loop: running = True, paused = False
RunCall ==
    /\ phase = "ready"
    /\ pc = "idle"
    /\ pc' = "test"
    /\ running' = TRUE
    /\ paused' = FALSE
    /\ tick' = NewTick
    /\ UNCHANGED <<disk, mesh_file, width, height, rows, cols, mesh, phase, exc, gl, reads,
                   last, start, cap, window, shutdown>>

\* "while running:" at the head of the loop
LoopTest ==
    /\ pc = "test"
    /\ pc' = IF running THEN "events" ELSE "cleanup"
    /\ tick' = IF running THEN NewTick ELSE tick
    /\ UNCHANGED <<disk, mesh_file, width, height, rows, cols, mesh, phase, exc, gl, reads,
                   last, start, running, paused, cap, window, shutdown>>

\* event QUIT, or KEYDOWN with K_ESCAPE or K_q
OnQuit ==
    /\ pc = "events"
    /\ running' = FALSE
    /\ UNCHANGED <<disk, mesh_file, width, height, rows, cols, mesh, phase, exc, gl, reads,
                   last, start, pc, paused, cap, window, tick, shutdown>>

\* KEYDOWN with K_F11 or K_f: toggle_fullscreen
OnKeyFullscreen ==
    /\ pc = "events"
    /\ window' = IF ~window.fullscreen
                 THEN [w |-> DisplaySize[1], h |-> DisplaySize[2], fullscreen |-> TRUE]
                 ELSE [w |-> WindowedSize[1], h |-> WindowedSize[2], fullscreen |-> FALSE]
    /\ UNCHANGED <<disk, mesh_file, width, height, rows, cols, mesh, phase, exc, gl, reads,
                   last, start, pc, running, paused, cap, tick, shutdown>>

\* event VIDEORESIZE: handle_resize
OnResize ==
    /\ pc = "events"
    /\ \E sz \in ResizeSizes : window' = [window EXCEPT !.w = sz[1], !.h = sz[2]]
    /\ UNCHANGED <<disk, mesh_file, width, height, rows, cols, mesh, phase, exc, gl, reads,
                   last, start, pc, running, paused, cap, tick, shutdown>>

\* KEYDOWN with K_b: apply_barrel_distortion(0.3)
OnKeyB ==
    /\ pc = "events"
    /\ mesh' = apply_barrel_distortion(mesh, KeyStrength)
    /\ last' = Before("barrel", KeyStrength, "none")
    /\ exc' = "none"
    /\ gl' = <<>>
    /\ reads' = {}
    /\ UNCHANGED <<disk, mesh_file, width, height, rows, cols, phase, start, loopvars>>

\* KEYDOWN with K_p: apply_pincushion_distortion(0.3)
OnKeyP ==
    /\ pc = "events"
    /\ mesh' = apply_pincushion_distortion(mesh, KeyStrength)
    /\ last' = Before("pincushion", KeyStrength, "none")
    /\ exc' = "none"
    /\ gl' = <<>>
    /\ reads' = {}
    /\ UNCHANGED <<disk, mesh_file, width, height, rows, cols, phase, start, loopvars>>

\* KEYDOWN with K_r: reset_mesh; an exception it raises leaves run()
OnKeyR ==
    /\ pc = "events"
    /\ LET res == reset_mesh(disk, mesh_file, rows, cols, width, height)
       IN  /\ Install(res)
           /\ last' = Before("reset", NoArg, res.cause)
           /\ pc' = IF res.exc = "none" THEN pc ELSE "raised"
    /\ UNCHANGED <<disk, mesh_file, width, height, start, running, paused, cap, window, tick,
                   shutdown>>

\* KEYDOWN with K_SPACE: paused = not paused
OnKeySpace ==
    /\ pc = "events"
    /\ paused' = ~paused
    /\ UNCHANGED <<disk, mesh_file, width, height, rows, cols, mesh, phase, exc, gl, reads,
                   last, start, pc, running, cap, window, tick, shutdown>>

\* The event queue is exhausted: the for loop over pygame.event.get() ends
EventsDone ==
    /\ pc = "events"
    /\ pc' = "frame"
    /\ UNCHANGED <<disk, mesh_file, width, height, rows, cols, mesh, phase, exc, gl, reads,
                   last, start, running, paused, cap, window, tick, shutdown>>

\* "if not paused:": read a frame (break when the retry fails too) and
\* update the texture
FrameStep ==
    /\ pc = "frame"
    /\ IF paused
       THEN /\ tick' = [tick EXCEPT !.paused = "yes"]
            /\ pc' = "draw"
            /\ cap' = cap
       ELSE LET res == read_frame(cap)
            IN  /\ cap' = res.cap
                /\ tick' = [paused |-> "no",
                            io |-> tick.io \o res.io
                                   \o (IF res.ret THEN <<"update_texture">> ELSE <<>>)]
                /\ pc' = IF res.ret THEN "draw" ELSE "cleanup"
    /\ UNCHANGED <<disk, mesh_file, width, height, rows, cols, mesh, phase, exc, gl, reads,
                   last, start, running, paused, window, shutdown>>

\* draw_mesh, pygame.display.flip, clock.tick: the rest of the iteration
DrawStep ==
    /\ pc = "draw"
    /\ LET res == draw_mesh(mesh, rows, cols)
       IN  /\ gl' = res.gl
           /\ reads' = res.reads
           /\ exc' = res.exc
           /\ phase' = IF res.exc = "none" THEN "ready" ELSE "dead"
           /\ pc' = IF res.exc = "none" THEN "test" ELSE "raised"
           /\ tick' = [tick EXCEPT !.io = IF res.exc = "none"
                                          THEN @ \o <<"draw_mesh", "flip">> ELSE @]
    /\ last' = Before("draw", NoArg, "none")
    /\ UNCHANGED <<disk, mesh_file, width, height, rows, cols, mesh, start, running, paused,
                   cap, window, shutdown>>

\* self.cleanup() after the loop: cap.release(), pygame.quit()
Cleanup ==
    /\ pc = "cleanup"
    /\ cap' = cap_release(cap)
    /\ shutdown' = shutdown \o <<"cap.release", "pygame.quit">>
    /\ pc' = "returned"
    /\ UNCHANGED <<disk, mesh_file, width, height, rows, cols, mesh, phase, exc, gl, reads,
                   last, start, running, paused, window, tick>>

RunNext ==
    \/ Start \/ RunCall \/ LoopTest
    \/ OnQuit \/ OnKeyFullscreen \/ OnResize \/ OnKeyB \/ OnKeyP \/ OnKeyR \/ OnKeySpace
    \/ EventsDone \/ FrameStep \/ DrawStep \/ Cleanup

\* Python runs the statements of run() one after the other: once the loop is
\* left, cleanup() is called
RunSpec == RunInit /\ [][RunNext]_vars /\ WF_vars(Cleanup)

----------------------------------------------------------------------------
(* Vocabulary of the properties.                                           *)

\* The last operation was a call of load_mesh (at engine start or by reset)
LoadCalled == last.op \in {"start", "reset"} /\ mesh_file # ""

\* The last operation was a call of load_mesh that took an except branch
FellBack == LoadCalled /\ last.cause \in {"FileNotFoundError", "too short", "version", "dimensions", "node"}

\* The last operation was a call of load_mesh that returned the parsed mesh
Parsed == LoadCalled /\ last.cause = "none"

\* Row-major index of grid position (r, c)
Idx(r, c) == r * cols + c

InMesh(i) == i >= 0 /\ i < Len(mesh)

\* Quad (r, c) of the current mesh is drawable: its four corners are grid
\* positions, are in the mesh, and are valid
Drawable(r, c) ==
    /\ r >= 0 /\ c >= 0 /\ r + 1 < rows /\ c + 1 < cols
    /\ \A i \in {Idx(r, c), Idx(r, c + 1), Idx(r + 1, c), Idx(r + 1, c + 1)} :
           InMesh(i) /\ mesh[i + 1].valid

IsVertex(p) == p \in 1..Len(gl) /\ gl[p].op = "glVertex2f"

\* Quad (r, c) is covered by the emitted strips: the vertices of columns c
\* and c+1 of rows r and r+1 are emitted consecutively (so in one strip)
QuadDrawn(r, c) ==
    \E p \in 1..Len(gl) :
        /\ IsVertex(p) /\ IsVertex(p + 1) /\ IsVertex(p + 2) /\ IsVertex(p + 3)
        /\ gl[p].idx = Idx(r, c)
        /\ gl[p + 1].idx = Idx(r + 1, c)
        /\ gl[p + 2].idx = Idx(r, c + 1)
        /\ gl[p + 3].idx = Idx(r + 1, c + 1)

InvalidNodes == {k \in 1..Len(mesh) : ~mesh[k].valid}

\* The nodes the well-formed lines GoodLines describe
GoodNodes ==
    << [x |-> RInt(0), y |-> RInt(0), u |-> RInt(0), v |-> RInt(1), i |-> RInt(1),
        valid |-> TRUE],
       [x |-> Rat(3, 2), y |-> RInt(-2), u |-> Rat(1, 2), v |-> Rat(1, 4), i |-> Rat(1, 2),
        valid |-> TRUE],
       [x |-> Rat(-1, 2), y |-> Rat(1, 2), u |-> RInt(1), v |-> RInt(0), i |-> RInt(0),
        valid |-> TRUE] >>

GoodNodeAt(p) == GoodNodes[((p - 1) % Len(GoodNodes)) + 1]

\* 0 <= a <= 1
InUnit(a) == RLe(RInt(0), a) /\ RLe(a, RInt(1))

----------------------------------------------------------------------------
(* C1.  Quad skipping.                                                     *)

\* C1: in a draw_mesh pass over a 3x3 mesh with exactly one invalid node,
\* the quads covered by emitted strip geometry are exactly the drawable
\* quads: no quad touching the invalid node is covered, every other is.
C1_QuadSkipping ==
    (last.op = "draw" /\ rows = 3 /\ cols = 3 /\ Len(mesh) = 9
        /\ Cardinality(InvalidNodes) = 1)
    => \A r \in 0..1, c \in 0..1 : QuadDrawn(r, c) <=> Drawable(r, c)

----------------------------------------------------------------------------
(* C2.  Truncated file.                                                    *)

\* C2: a file whose header declares nx*ny nodes and which supplies only
\* k < nx*ny well-formed in-range node lines (k >= 1) loads without falling
\* back into a mesh of length nx*ny: the k nodes of the file followed by
\* nx*ny - k placeholder invalid nodes.
C2_TruncatedPadded ==
    \A d \in GridDims : \A k \in 1..(d[1] * d[2] - 1) :
        (LoadCalled /\ disk = File(Header(d[1], d[2]) \o AllGood(k)))
        => /\ Parsed
           /\ exc = "none"
           /\ Len(mesh) = d[1] * d[2]
           /\ \A j \in 1..Len(mesh) :
                  mesh[j] = IF j <= k THEN GoodNodeAt(j) ELSE Placeholder

----------------------------------------------------------------------------
(* C3.  Mesh-loading failures never escape.                                *)

\* C3: every call of load_mesh, at engine start or by reset, on an engine
\* holding rows, cols >= 2, returns a mesh and raises no exception to its
\* caller, whatever the file holds.
C3_NoEscape ==
    (LoadCalled /\ last.rows >= 2 /\ last.cols >= 2) => (exc = "none" /\ phase = "ready")

----------------------------------------------------------------------------
(* C4.  Fallback uses the configured dimensions.                           *)

\* C4: whenever load_mesh falls back (and returns), the mesh it returns is
\* the identity mesh of the rows x cols the engine held before the call,
\* and the engine's rows and cols are the same after the call as before.
C4_FallbackKeepsDims ==
    (LoadCalled /\ last.cause \in {"FileNotFoundError", "too short", "dimensions", "node"}
        /\ exc = "none")
    => /\ rows = last.rows
       /\ cols = last.cols
       /\ mesh = create_identity_mesh(last.rows, last.cols, width, height).mesh

----------------------------------------------------------------------------
(* C5.  Per-node validation.                                               *)

\* The significant node lines of the file on disk, in order
NodeLinesOnDisk == PyTail(Significant(disk.lines), 2)

\* C5: after load_mesh returned the parsed mesh, the node at mesh index k
\* comes from the k-th significant node line: a line with five or more
\* fields is stored with its parsed values and valid iff u, v and intensity
\* are all in [0, 1]; a line with fewer fields is stored as the placeholder.
C5_NodeValidation ==
    Parsed =>
        \A k \in 1..Len(mesh) :
            LET line == NodeLinesOnDisk[k]
            IN  IF Len(line) >= 5
                THEN /\ mesh[k].x = FloatLit[line[1]]
                     /\ mesh[k].y = FloatLit[line[2]]
                     /\ mesh[k].u = FloatLit[line[3]]
                     /\ mesh[k].v = FloatLit[line[4]]
                     /\ mesh[k].i = FloatLit[line[5]]
                     /\ mesh[k].valid <=>
                            (InUnit(mesh[k].u) /\ InUnit(mesh[k].v) /\ InUnit(mesh[k].i))
                ELSE mesh[k] = Placeholder

----------------------------------------------------------------------------
(* C6.  Reset semantics.                                                   *)

\* C6: reset reloads from the file when a mesh path was given and
\* regenerates the identity mesh otherwise; with the mesh file unchanged,
\* after any sequence of distortions followed by reset, the mesh and
\* rows/cols equal those established at engine start.
C6_ResetRestoresStart ==
    last.op = "reset"
    => /\ exc = "none"
       /\ mesh = start.mesh
       /\ rows = start.rows
       /\ cols = start.cols
       /\ (mesh_file = "") <=> (last.cause = "no file")
       /\ (mesh_file = "") =>
              mesh = create_identity_mesh(last.rows, last.cols, width, height).mesh

\* A reset of a distorted mesh that was loaded from a file with custom
\* output geometry, with valid and invalid nodes
C6_Witness ==
    /\ last.op = "reset"
    /\ Parsed
    /\ last.mesh # mesh
    /\ InvalidNodes # {}
    /\ \E k \in 1..Len(mesh) : mesh[k].valid /\ mesh[k].x = Rat(3, 2)

----------------------------------------------------------------------------
(* C7.  Identity generator.                                                *)

\* The last operation installed a mesh made by create_identity_mesh
Generated == last.op \in {"start", "reset"} /\ (mesh_file = "" \/ FellBack) /\ exc = "none"

\* aspect = width/height, or 16/9 when the height is 0
Aspect == IF height = 0 THEN Rat(16, 9) ELSE Rat(width, height)

\* C7: for rows, cols >= 2 the generated mesh has exactly rows*cols nodes
\* in row-major order, all valid with intensity 1, with u = c/(cols-1),
\* v = 1 - r/(rows-1), x = u*2*aspect - aspect, y = (r/(rows-1))*2 - 1, so
\* that x spans exactly [-aspect, aspect] and y spans [-1, 1].
C7_IdentityMesh ==
    (Generated /\ rows >= 2 /\ cols >= 2)
    => /\ Len(mesh) = rows * cols
       /\ \A r \in 0..(rows - 1), c \in 0..(cols - 1) :
              LET node == mesh[r * cols + c + 1]
              IN  /\ node.valid
                  /\ node.i = RInt(1)
                  /\ node.u = Rat(c, cols - 1)
                  /\ node.v = RSub(RInt(1), Rat(r, rows - 1))
                  /\ node.x = RSub(RMul(RMul(node.u, RInt(2)), Aspect), Aspect)
                  /\ node.y = RSub(RMul(Rat(r, rows - 1), RInt(2)), RInt(1))
                  /\ InUnit(node.u) /\ InUnit(node.v)
                  /\ RLe(RNeg(Aspect), node.x) /\ RLe(node.x, Aspect)
                  /\ RLe(RInt(-1), node.y) /\ RLe(node.y, RInt(1))
                  /\ (c = 0 => node.x = RNeg(Aspect) /\ node.u = RInt(0))
                  /\ (c = cols - 1 => node.x = Aspect /\ node.u = RInt(1))
                  /\ (r = 0 => node.y = RInt(-1) /\ node.v = RInt(1))
                  /\ (r = rows - 1 => node.y = RInt(1) /\ node.v = RInt(0))

\* A generated non-square mesh with an interior column, for a video whose
\* height is unknown
C7_Witness ==
    /\ Generated
    /\ mesh_file = ""
    /\ rows = 2 /\ cols = 3
    /\ height = 0
    /\ Len(mesh) = 6
    /\ mesh[2].u = Rat(1, 2)

----------------------------------------------------------------------------
(* C8.  Distortion sign symmetry.                                          *)

\* x or y of a valid node after pincushion(s): coord*(1 - s*r^2), with
\* un = 2u-1, vn = 2v-1, r^2 = un^2 + vn^2
PincushionCoord(coord, un, vn, s) ==
    RMul(coord, RSub(RInt(1), RMul(s, RAdd(RMul(un, un), RMul(vn, vn)))))

\* C8: apply_pincushion_distortion(s) leaves the mesh in the state
\* apply_barrel_distortion(-s) leaves it in from the same mesh; every valid
\* node gets x = un*(1 - s*r^2), y = vn*(1 - s*r^2), the others are kept.
C8_SignSymmetry ==
    last.op = "pincushion"
    => /\ mesh = apply_barrel_distortion(last.mesh, RNeg(last.arg))
       /\ Len(mesh) = Len(last.mesh)
       /\ \A k \in 1..Len(mesh) :
              LET old == last.mesh[k]
                  un  == RSub(RMul(old.u, RInt(2)), RInt(1))
                  vn  == RSub(RMul(old.v, RInt(2)), RInt(1))
              IN  IF old.valid
                  THEN mesh[k] = [old EXCEPT !.x = PincushionCoord(un, un, vn, last.arg),
                                             !.y = PincushionCoord(vn, un, vn, last.arg)]
                  ELSE mesh[k] = old

\* A pincushion call that moved a valid node of a mesh with an invalid node
C8_Witness ==
    /\ last.op = "pincushion"
    /\ InvalidNodes # {}
    /\ \E k \in 1..Len(mesh) : mesh[k].valid /\ mesh[k].x # last.mesh[k].x
                               /\ ~IsNaN(mesh[k].x)

----------------------------------------------------------------------------
(* C9.  Mesh size invariant.                                               *)

\* C9: whenever the render loop can run a tessellation pass (over a grid of
\* rows, cols >= 2), len(mesh) = rows * cols.
C9_MeshSize == (phase = "ready" /\ rows >= 2 /\ cols >= 2) => Len(mesh) = rows * cols

----------------------------------------------------------------------------
(* C10.  Invalid nodes never reach the geometry.                           *)

\* C10: in any draw_mesh pass every mesh index read is within the mesh, no
\* vertex is emitted for an invalid node, two vertices emitted one after
\* the other in the same strip belong to the same column or to columns c
\* and c+1 with quad (r, c) drawable, and the pass raises nothing.
C10_DrawSafe ==
    last.op = "draw"
    => /\ exc = "none"
       /\ phase = "ready"
       /\ \A i \in reads : InMesh(i)
       /\ \A p \in 1..Len(gl) :
              IsVertex(p) => InMesh(gl[p].idx) /\ mesh[gl[p].idx + 1].valid
       /\ \A p \in 1..(Len(gl) - 1) :
              (IsVertex(p) /\ IsVertex(p + 1) /\ gl[p].c # gl[p + 1].c)
              => /\ gl[p + 1].r = gl[p].r
                 /\ gl[p + 1].c = gl[p].c + 1
                 /\ Drawable(gl[p].r, gl[p].c)

\* A pass over a mesh shorter than rows*cols, with an invalid node, that
\* emitted a quad and skipped another
C10_Witness ==
    /\ last.op = "draw"
    /\ Len(mesh) < rows * cols
    /\ InvalidNodes # {}
    /\ \E r \in 0..(rows - 2), c \in 0..(cols - 2) : QuadDrawn(r, c)
    /\ \E r \in 0..(rows - 2), c \in 0..(cols - 2) : ~Drawable(r, c)

----------------------------------------------------------------------------
(* C11.  Distortion does not compose.                                      *)

\* The strength apply_barrel_distortion runs with in the last call
LastStrength == IF last.op = "pincushion" THEN RNeg(last.arg) ELSE last.arg

\* coord*(1 + s*r^2) for a node with texture coordinates u, v, where
\* un = 2u-1, vn = 2v-1, r^2 = un^2 + vn^2
FromTexture(coord, u, v, s) ==
    LET un == RSub(RMul(u, RInt(2)), RInt(1))
        vn == RSub(RMul(v, RInt(2)), RInt(1))
    IN  RMul(coord, RAdd(RInt(1), RMul(s, RAdd(RMul(un, un), RMul(vn, vn)))))

\* The mesh one call (op, arg) produces from mesh m
Once(m, op, arg) ==
    IF op = "pincushion" THEN apply_pincushion_distortion(m, arg)
    ELSE apply_barrel_distortion(m, arg)

\* C11: after any non-empty sequence of barrel / pincushion calls since the
\* engine start or the last reset, x and y of every valid node are what the
\* last call alone computes from the node's u, v; the mesh is the one the
\* last call alone produces from the undistorted mesh, and applying the
\* last call once more gives the same mesh.
C11_NoComposition ==
    last.op \in {"barrel", "pincushion"}
    => /\ Len(mesh) = Len(start.mesh)
       /\ \A k \in 1..Len(mesh) :
              mesh[k].valid =>
                  /\ mesh[k].x = FromTexture(RSub(RMul(mesh[k].u, RInt(2)), RInt(1)),
                                             mesh[k].u, mesh[k].v, LastStrength)
                  /\ mesh[k].y = FromTexture(RSub(RMul(mesh[k].v, RInt(2)), RInt(1)),
                                             mesh[k].u, mesh[k].v, LastStrength)
       /\ mesh = Once(start.mesh, last.op, last.arg)
       /\ Once(mesh, last.op, last.arg) = mesh

\* A call applied to a mesh that an earlier, different call had already
\* moved away from the undistorted mesh, and that moved a valid node again
C11_Witness ==
    /\ last.op \in {"barrel", "pincushion"}
    /\ last.mesh # start.mesh
    /\ last.mesh # mesh
    /\ \E k \in 1..Len(mesh) :
           /\ mesh[k].valid
           /\ ~IsNaN(mesh[k].x)
           /\ mesh[k].x # last.mesh[k].x
           /\ last.mesh[k].x # start.mesh[k].x

----------------------------------------------------------------------------
(* C12.  Frame of the distortion transform.                                *)

\* The step is a call of apply_barrel_distortion or
\* apply_pincushion_distortion
DistortionStep == last'.op \in {"barrel", "pincushion"}

\* C12: a distortion call changes nothing but x and y of valid nodes: an
\* invalid node keeps all its fields, every node keeps u, v, intensity and
\* valid, and rows, cols, the mesh length and the mesh file path are kept.
C12_DistortionFrame ==
    [][DistortionStep
       => /\ rows' = rows
          /\ cols' = cols
          /\ mesh_file' = mesh_file
          /\ Len(mesh') = Len(mesh)
          /\ \A k \in 1..Len(mesh) :
                 /\ DOMAIN mesh'[k] = DOMAIN mesh[k]
                 /\ mesh'[k].u = mesh[k].u
                 /\ mesh'[k].v = mesh[k].v
                 /\ mesh'[k].i = mesh[k].i
                 /\ mesh'[k].valid = mesh[k].valid
                 /\ ~mesh[k].valid => mesh'[k] = mesh[k]]_vars

\* After a distortion call that moved a valid node: a mesh holding an
\* invalid node off the origin, where the formula would have moved it
C12_Witness ==
    /\ last.op \in {"barrel", "pincushion"}
    /\ Len(mesh) = Len(last.mesh)
    /\ \E k \in 1..Len(mesh) : mesh[k].valid /\ mesh[k] # last.mesh[k]
    /\ \E k \in 1..Len(mesh) :
           /\ ~mesh[k].valid
           /\ mesh[k].x # RInt(0)
           /\ BarrelNode(mesh[k], LastStrength) # mesh[k]

----------------------------------------------------------------------------
(* C13.  Frame-read recovery in the render loop.                           *)

\* What an iteration of the loop issues on the source and the backend
FirstReadOk == <<"read ok", "update_texture">>

Recovered == <<"read failed", "seek 0", "read ok", "update_texture">>

GaveUp == <<"read failed", "seek 0", "read failed">>

Rendered == <<"draw_mesh", "flip">>

\* The iteration got past "if not paused" and goes on to the tessellation
TickBeforeDraw ==
    \/ tick.paused = "yes" /\ paused /\ tick.io = <<>>
    \/ tick.paused = "no" /\ ~paused /\ tick.io \in {FirstReadOk, Recovered}

\* The iteration ran to its end
TickComplete ==
    \/ tick.paused = "yes" /\ paused /\ tick.io = Rendered
    \/ tick.paused = "no" /\ ~paused
           /\ tick.io \in {FirstReadOk \o Rendered, Recovered \o Rendered}

\* The iteration was left by the break after the second failed read
TickGaveUp == tick.paused = "no" /\ ~paused /\ tick.io = GaveUp

\* cleanup() ran once: the source is released and the backend shut down
CleanedUpOnce == shutdown = <<"cap.release", "pygame.quit">> /\ cap.released

C13_TickInv ==
    /\ pc \in {"idle", "test", "events", "frame", "draw", "cleanup", "returned"}
    /\ pc \in {"idle", "events", "frame"} => tick = NewTick
    /\ pc = "draw" => TickBeforeDraw
    /\ pc = "test" => (tick = NewTick \/ TickComplete)
    /\ pc \in {"cleanup", "returned"} => (TickComplete \/ TickGaveUp)
    /\ pc = "returned" => CleanedUpOnce
    /\ pc # "returned" => (shutdown = <<>> /\ ~cap.released)

\* C13: an unpaused iteration reads once and, when the read fails, seeks
\* to frame 0 once and reads once more; after a successful read or retry it
\* uploads the texture and runs one tessellation pass; after a failed retry
\* it renders nothing, the loop ends, and cleanup (release of the source,
\* backend shutdown) runs, once; a paused iteration reads nothing and runs
\* one tessellation pass.
C13_FrameReadRecovery ==
    /\ []C13_TickInv
    /\ (TickGaveUp ~> (pc = "returned" /\ CleanedUpOnce))
    /\ []((pc = "returned") => [](pc = "returned" /\ CleanedUpOnce))

\* The loop was left by a failed retry, on a source that cannot seek and
\* had delivered its frames, and cleanup has run
C13_Witness ==
    /\ pc = "returned"
    /\ TickGaveUp
    /\ CleanedUpOnce
    /\ cap.frames > 0
    /\ cap.pos = cap.frames

\* An iteration whose first read failed at the end of the stream and whose
\* retry after the seek succeeded, rendered to its end
C13_RecoveredTick ==
    /\ pc = "test"
    /\ tick.io = Recovered \o Rendered
    /\ cap.pos = 1
    /\ Len(gl) > 0

\* A paused iteration rendered to its end
C13_PausedTick == pc = "test" /\ tick.paused = "yes" /\ tick.io = Rendered /\ Len(gl) > 0

====
